---------------------------- MODULE Spec2Model ----------------------------
(***************************************************************************)
(* A model of filament's camera (filament/src/Camera.cpp): the projection  *)
(* builder, the clip-space adapter, the transform bridge, the exposure     *)
(* state, the analytic projection inverse and the CameraInfo snapshot.     *)
(*                                                                         *)
(* Numbers.  A double is modelled as an exact rational <<n, d>> in lowest  *)
(* terms with d >= 0; d = 0 encodes the IEEE specials: <<1,0>> is +inf,    *)
(* <<-1,0>> is -inf and <<0,0>> is NaN; they arise only from a division by *)
(* zero, the inputs of the model are finite.  Narrowing a double to a      *)
(* float (float(x), mat4f{m}) rounds to the nearest multiple of            *)
(* 1/FloatScale, ties to even, so that two distinct doubles can narrow to  *)
(* the same float and a small positive double can narrow to 0.  A value    *)
(* that is a float from the start is carried as it is.                     *)
(*                                                                         *)
(* Matrices are indexed as in the source, m[column][row], from 0.          *)
(***************************************************************************)
EXTENDS Integers, Sequences, FiniteSets, TLC

VARIABLES
    mProjection,            \* FCamera::mProjection (rendering projection)
    mProjectionForCulling,  \* FCamera::mProjectionForCulling
    mNear,                  \* FCamera::mNear (float)
    mFar,                   \* FCamera::mFar (float)
    mScaling,               \* FCamera::mScaling   <<x, y>>
    mShiftCS,               \* FCamera::mShiftCS   <<x, y>>
    mAperture,              \* FCamera::mAperture (float)
    mShutterSpeed,          \* FCamera::mShutterSpeed (float)
    mSensitivity,           \* FCamera::mSensitivity (float)
    mFocusDistance,         \* FCamera::mFocusDistance (float)
    tm,                     \* the transform system's world transform of mEntity
    built,                  \* history: how the projection was last set
    op,                     \* the last operation called, with its arguments
    ret                     \* what the last operation returned

vars == <<mProjection, mProjectionForCulling, mNear, mFar, mScaling, mShiftCS,
          mAperture, mShutterSpeed, mSensitivity, mFocusDistance, tm, built,
          op, ret>>

projVars == <<mProjection, mProjectionForCulling, mNear, mFar>>
clipVars == <<mScaling, mShiftCS>>
expoVars == <<mAperture, mShutterSpeed, mSensitivity>>

-----------------------------------------------------------------------------
(* Bounds of the model.                                                    *)

\* the float grid: floats are the multiples of 1/FloatScale
FloatScale == 8
\* frustum planes left/right/bottom/top range over -MaxCoord..MaxCoord
MaxCoord == 1
\* near and far range over k/DepthDen, k in 0..MaxDepth
MaxDepth == 5
\* focal lengths range over 1..MaxFocal, focus distances over 0..MaxFocal+2
MaxFocal == 10
\* exposure inputs are tried at MaxExposureSteps points inside each range
MaxExposureSteps == 1
\* clip-space scalings range over k/2, k in 1..MaxScale
MaxScale == 2
\* clip-space shifts range over k/2, k in -1..MaxShift
MaxShift == 0
\* model matrices translate by 0..MaxTranslate along x and along y
MaxTranslate == 1

-----------------------------------------------------------------------------
(* Exact rationals extended with +inf, -inf and NaN.                       *)

Abs(x) == IF x < 0 THEN -x ELSE x

Sign(x) == IF x < 0 THEN -1 ELSE IF x > 0 THEN 1 ELSE 0

RECURSIVE GCD(_, _)
GCD(a, b) == IF b = 0 THEN a ELSE GCD(b, a % b)

\* the rational n/d in lowest terms with a non-negative denominator
R(n, d) ==
    IF d = 0 THEN <<Sign(n), 0>>
    ELSE LET g == GCD(Abs(n), Abs(d))
         IN  <<(Sign(d) * n) \div g, Abs(d) \div g>>

Zero == <<0, 1>>
One == <<1, 1>>
Two == <<2, 1>>
Half == <<1, 2>>
PosInf == <<1, 0>>
NegInf == <<-1, 0>>
NaN == <<0, 0>>

IsNaN(a) == a = NaN
IsInf(a) == a[2] = 0 /\ a[1] # 0
IsFinite(a) == a[2] # 0

RNeg(a) == <<-a[1], a[2]>>

RAdd(a, b) ==
    IF IsNaN(a) \/ IsNaN(b) THEN NaN
    ELSE IF IsInf(a) /\ IsInf(b) THEN (IF a = b THEN a ELSE NaN)
    ELSE IF IsInf(a) THEN a
    ELSE IF IsInf(b) THEN b
    ELSE LET g == GCD(a[2], b[2])
         IN  R(a[1] * (b[2] \div g) + b[1] * (a[2] \div g),
               (a[2] \div g) * b[2])

RSub(a, b) == RAdd(a, RNeg(b))

RMul(a, b) ==
    IF a[2] = 0 \/ b[2] = 0 THEN <<Sign(a[1]) * Sign(b[1]), 0>>
    ELSE LET g1 == GCD(Abs(a[1]), b[2])
             g2 == GCD(Abs(b[1]), a[2])
         IN  <<(a[1] \div g1) * (b[1] \div g2),
               (a[2] \div g2) * (b[2] \div g1)>>

\* 1/a; 1/0 is +inf (the zero of the model is unsigned)
RInv(a) ==
    IF a = Zero THEN PosInf
    ELSE <<Sign(a[1]) * a[2], Abs(a[1])>>

RDiv(a, b) == RMul(a, RInv(b))

\* the comparisons of IEEE: every comparison with NaN is false but !=
REq(a, b) == ~IsNaN(a) /\ ~IsNaN(b) /\ a = b
RNe(a, b) == ~REq(a, b)
RLt(a, b) ==
    /\ ~IsNaN(a)
    /\ ~IsNaN(b)
    /\ IF IsInf(a) /\ IsInf(b) THEN a[1] < b[1]
       ELSE IF IsInf(a) THEN a[1] < 0
       ELSE IF IsInf(b) THEN b[1] > 0
       ELSE LET g == GCD(a[2], b[2])
            IN  a[1] * (b[2] \div g) < b[1] * (a[2] \div g)
RLe(a, b) == RLt(a, b) \/ REq(a, b)
RGt(a, b) == RLt(b, a)

\* std::max(a, b) is (a < b) ? b : a; std::min(a, b) is (b < a) ? b : a
RMax(a, b) == IF RLt(a, b) THEN b ELSE a
RMin(a, b) == IF RLt(b, a) THEN b ELSE a

\* float(x): the nearest multiple of 1/FloatScale, ties to the even multiple
Float(a) ==
    IF ~IsFinite(a) THEN a
    ELSE LET n == a[1] * FloatScale
             q == n \div a[2]
             rem == n - q * a[2]
             k == IF 2 * rem < a[2] THEN q
                  ELSE IF 2 * rem > a[2] THEN q + 1
                  ELSE IF q % 2 = 0 THEN q ELSE q + 1
         IN  R(k, FloatScale)

-----------------------------------------------------------------------------
(* 4x4 matrices, m[column][row].                                           *)

Idx == 0..3

Mat(f(_, _)) == [c \in Idx |-> [r \in Idx |-> f(c, r)]]

IdentityEntry(c, r) == IF c = r THEN One ELSE Zero

\* a default-constructed mat4
Identity == Mat(IdentityEntry)

\* m with entry [c][r] replaced by v
Put(m, c, r, v) == [m EXCEPT ![c][r] = v]

\* e, evaluated once, handed to F (an operator's argument is otherwise
\* evaluated again at each of its uses)
Once(F(_), e) == CHOOSE x \in {F(v) : v \in {e}} : TRUE

\* the matrix product a * b: (a * b)[c][r] = sum over k of a[k][r] * b[c][k]
MatMul(a, b) ==
    LET Product(p) ==
            [c \in Idx |-> [r \in Idx |->
                RAdd(RAdd(RMul(p[1][0][r], p[2][c][0]), RMul(p[1][1][r], p[2][c][1])),
                     RAdd(RMul(p[1][2][r], p[2][c][2]), RMul(p[1][3][r], p[2][c][3])))]]
    IN  Once(Product, <<a, b>>)

\* mat4f{ m }: every entry narrowed to float
MatF(m) ==
    LET Narrowed(v) == [c \in Idx |-> [r \in Idx |-> Float(v[c][r])]]
    IN  Once(Narrowed, m)

\* row r of m, as <<m[0][r], m[1][r], m[2][r], m[3][r]>>
Row(m, r) == <<m[0][r], m[1][r], m[2][r], m[3][r]>>

\* mat4::row_major_init: sixteen values given row by row
RowMajor(rows) == [c \in Idx |-> [r \in Idx |-> rows[r + 1][c + 1]]]

MatFinite(m) == \A c \in Idx : \A r \in Idx : IsFinite(m[c][r])

-----------------------------------------------------------------------------
(* The projection builder.                                                 *)

PERSPECTIVE == "PERSPECTIVE"
ORTHO == "ORTHO"
Projections == {PERSPECTIVE, ORTHO}

\* mat4::frustum(left, right, bottom, top, near, far), the general
\* perspective projection in GL convention:
\*     2N/(r-l)     0      (r+l)/(r-l)       0
\*        0      2N/(t-b)  (t+b)/(t-b)       0
\*        0         0      (F+N)/(N-F)   2*F*N/(N-F)
\*        0         0          -1            0
frustum(left, right, bottom, top, near, far) ==
    LET m0 == Identity
        m1 == Put(m0, 0, 0, RDiv(RMul(Two, near), RSub(right, left)))
        m2 == Put(m1, 1, 1, RDiv(RMul(Two, near), RSub(top, bottom)))
        m3 == Put(m2, 2, 0, RDiv(RAdd(right, left), RSub(right, left)))
        m4 == Put(m3, 2, 1, RDiv(RAdd(top, bottom), RSub(top, bottom)))
        m5 == Put(m4, 2, 2, RDiv(RAdd(far, near), RSub(near, far)))
        m6 == Put(m5, 2, 3, RNeg(One))
        m7 == Put(m6, 3, 2, RDiv(RMul(RMul(Two, far), near), RSub(near, far)))
    IN  Put(m7, 3, 3, Zero)

\* mat4::ortho(left, right, bottom, top, near, far), the general orthographic
\* projection in GL convention:
\*     2/(r-l)      0          0       -(r+l)/(r-l)
\*        0      2/(t-b)       0       -(t+b)/(t-b)
\*        0         0      -2/(F-N)    -(F+N)/(F-N)
\*        0         0          0             1
ortho(left, right, bottom, top, near, far) ==
    LET m0 == Identity
        m1 == Put(m0, 0, 0, RDiv(Two, RSub(right, left)))
        m2 == Put(m1, 1, 1, RDiv(Two, RSub(top, bottom)))
        m3 == Put(m2, 2, 2, RDiv(RNeg(Two), RSub(far, near)))
        m4 == Put(m3, 3, 0, RDiv(RNeg(RAdd(right, left)), RSub(right, left)))
        m5 == Put(m4, 3, 1, RDiv(RNeg(RAdd(top, bottom)), RSub(top, bottom)))
    IN  Put(m5, 3, 2, RDiv(RNeg(RAdd(far, near)), RSub(far, near)))

\* the default frustum of the fallback
DefaultLeft == R(-1, 10)
DefaultRight == R(1, 10)
DefaultBottom == R(-1, 10)
DefaultTop == R(1, 10)
DefaultNear == R(1, 10)
DefaultFar == R(100, 1)

\* a variant of the precondition test that leaves out bottom == top
PreconditionsNotMetNoBottomTop(projection, left, right, bottom, top, near, far) ==
    \/ REq(left, right)
    \/ (projection = PERSPECTIVE /\ (RLe(near, Zero) \/ RLe(far, near)))
    \/ (projection = ORTHO /\ REq(near, far))

\* the precondition check of setProjection: TRUE when the defaults are used
PreconditionsNotMet(projection, left, right, bottom, top, near, far) ==
    \/ REq(left, right)
    \/ REq(bottom, top)
    \/ (projection = PERSPECTIVE /\ (RLe(near, Zero) \/ RLe(far, near)))
    \/ (projection = ORTHO /\ REq(near, far))

\* the six values setProjection builds the matrices from
UsedPlanes(projection, left, right, bottom, top, near, far) ==
    IF PreconditionsNotMet(projection, left, right, bottom, top, near, far)
    THEN [left |-> DefaultLeft, right |-> DefaultRight,
          bottom |-> DefaultBottom, top |-> DefaultTop,
          near |-> DefaultNear, far |-> DefaultFar]
    ELSE [left |-> left, right |-> right, bottom |-> bottom, top |-> top,
          near |-> near, far |-> far]

\* a variant that writes the second entry transposed, at [2][3]
InfiniteFarTransposed(p, near) ==
    Put(Put(p, 2, 2, RNeg(One)), 2, 3, RMul(RNeg(Two), near))

\* the two overwritten entries of the rendering copy: the far plane at infinity
InfiniteFar(p, near) ==
    Put(Put(p, 2, 2, RNeg(One)), 3, 2, RMul(RNeg(Two), near))

\* FCamera::setProjection(projection, left, right, bottom, top, near, far):
\* the four fields it stores
setProjection(projection, left, right, bottom, top, near, far) ==
    LET u == UsedPlanes(projection, left, right, bottom, top, near, far)
        p == IF projection = PERSPECTIVE
             THEN frustum(u.left, u.right, u.bottom, u.top, u.near, u.far)
             ELSE ortho(u.left, u.right, u.bottom, u.top, u.near, u.far)
    IN  [mProjection |-> IF projection = PERSPECTIVE
                         THEN InfiniteFar(p, u.near) ELSE p,
         mProjectionForCulling |-> p,
         mNear |-> Float(u.near),
         mFar |-> Float(u.far)]


\* the arguments FCamera::setProjection(fovInDegrees, aspect, near, far,
\* direction) reaches the frustum setter with; tan of half the field of view
\* is tabulated on the angles the model tries
TanHalfDeg(fovInDegrees) ==
    CASE fovInDegrees = 0 -> Zero
      [] fovInDegrees = 90 -> One
      [] fovInDegrees = -90 -> RNeg(One)

VERTICAL == "VERTICAL"
HORIZONTAL == "HORIZONTAL"

FovFrustum(fovInDegrees, aspect, near, far, direction) ==
    LET s == RMul(TanHalfDeg(fovInDegrees), near)
        w == IF direction = VERTICAL THEN RMul(s, aspect) ELSE s
        h == IF direction = VERTICAL THEN s ELSE RDiv(s, aspect)
    IN  <<PERSPECTIVE, RNeg(w), w, RNeg(h), h, near, far>>

\* FCamera::SENSOR_SIZE (24 mm, in metres) and SENSOR_SIZE * 1000.0
SENSOR_SIZE == R(24, 1000)
SensorSizeMM == RMul(SENSOR_SIZE, R(1000, 1))

\* the arguments FCamera::setLensProjection reaches the frustum setter with
LensFrustum(focalLengthInMillimeters, aspect, near, far) ==
    LET h == RMul(RMul(Half, near), RDiv(SensorSizeMM, focalLengthInMillimeters))
        w == RMul(h, aspect)
    IN  <<PERSPECTIVE, RNeg(w), w, RNeg(h), h, near, far>>

\* FCamera::setCustomProjection(p, c, near, far): no validation
setCustomProjection(p, c, near, far) ==
    [mProjection |-> p, mProjectionForCulling |-> c,
     mNear |-> Float(near), mFar |-> Float(far)]

-----------------------------------------------------------------------------
(* The clip-space adapter.                                                 *)

\* a variant whose depth row keeps the sign of z: z' = 0.5 z + 0.5 w
getProjectionMatrixKeepSign ==
    LET m == RowMajor(<<
            <<mScaling[1], Zero, Zero, mShiftCS[1]>>,
            <<Zero, mScaling[2], Zero, mShiftCS[2]>>,
            <<Zero, Zero, Half, Half>>,
            <<Zero, Zero, Zero, One>> >>)
    IN  MatMul(m, mProjection)

\* FCamera::getProjectionMatrix(): GL clip space to inverted-DX clip space
getProjectionMatrix ==
    LET m == RowMajor(<<
            <<mScaling[1], Zero, Zero, mShiftCS[1]>>,
            <<Zero, mScaling[2], Zero, mShiftCS[2]>>,
            <<Zero, Zero, RNeg(Half), Half>>,
            <<Zero, Zero, Zero, One>> >>)
    IN  MatMul(m, mProjection)

\* a variant that remaps the depth row as the rendering read does
getCullingProjectionMatrixRemapped ==
    LET m == RowMajor(<<
            <<mScaling[1], Zero, Zero, mShiftCS[1]>>,
            <<Zero, mScaling[2], Zero, mShiftCS[2]>>,
            <<Zero, Zero, RNeg(Half), Half>>,
            <<Zero, Zero, Zero, One>> >>)
    IN  MatMul(m, mProjectionForCulling)

\* FCamera::getCullingProjectionMatrix(): stays in the GL convention
getCullingProjectionMatrix ==
    LET m == RowMajor(<<
            <<mScaling[1], Zero, Zero, mShiftCS[1]>>,
            <<Zero, mScaling[2], Zero, mShiftCS[2]>>,
            <<Zero, Zero, One, Zero>>,
            <<Zero, Zero, Zero, One>> >>)
    IN  MatMul(m, mProjectionForCulling)

-----------------------------------------------------------------------------
(* The exposure state.                                                     *)

MIN_APERTURE == R(1, 2)
MAX_APERTURE == R(64, 1)
MIN_SHUTTER_SPEED == R(1, 25000)
MAX_SHUTTER_SPEED == R(60, 1)
MIN_SENSITIVITY == R(10, 1)
MAX_SENSITIVITY == R(204800, 1)

\* math::clamp(v, min, max) is min(max, max(min, v))
clamp(v, min, max) == RMin(max, RMax(min, v))

\* a variant that clamps the sensitivity to the shutter speed's range
setExposureWrongRange(aperture, shutterSpeed, sensitivity) ==
    [mAperture |-> clamp(aperture, MIN_APERTURE, MAX_APERTURE),
     mShutterSpeed |-> clamp(shutterSpeed, MIN_SHUTTER_SPEED, MAX_SHUTTER_SPEED),
     mSensitivity |-> clamp(sensitivity, MIN_SHUTTER_SPEED, MAX_SHUTTER_SPEED)]

\* FCamera::setExposure(aperture, shutterSpeed, sensitivity): the three
\* fields it stores
setExposure(aperture, shutterSpeed, sensitivity) ==
    [mAperture |-> clamp(aperture, MIN_APERTURE, MAX_APERTURE),
     mShutterSpeed |-> clamp(shutterSpeed, MIN_SHUTTER_SPEED, MAX_SHUTTER_SPEED),
     mSensitivity |-> clamp(sensitivity, MIN_SENSITIVITY, MAX_SENSITIVITY)]

\* FCamera::getFocalLength()
getFocalLength == RMul(RMul(SENSOR_SIZE, mProjection[1][1]), Half)

\* a variant without the clamp of the focus distance
EffectiveFocalDivisorUnclamped(focalLength, focusDistance) ==
    RSub(focusDistance, focalLength)

\* the divisor of FCamera::computeEffectiveFocalLength: the focus distance,
\* clamped, minus the focal length
EffectiveFocalDivisor(focalLength, focusDistance) ==
    RSub(RMax(focalLength, focusDistance), focalLength)

\* FCamera::computeEffectiveFocalLength(focalLength, focusDistance)
computeEffectiveFocalLength(focalLength, focusDistance) ==
    RDiv(RMul(RMax(focalLength, focusDistance), focalLength),
         EffectiveFocalDivisor(focalLength, focusDistance))

-----------------------------------------------------------------------------
(* The analytic inverse of a projection.                                   *)

\* a variant whose perspective branch forgets the factor C in r[3][3]
inverseProjectionNoFactor(p) ==
    LET A == RInv(p[0][0])
        B == RInv(p[1][1])
    IN  IF RNe(p[2][3], Zero)
        THEN LET C == RInv(p[3][2])
                 r1 == Put(Identity, 0, 0, A)
                 r2 == Put(r1, 1, 1, B)
                 r3 == Put(r2, 2, 2, Zero)
                 r4 == Put(r3, 2, 3, C)
                 r5 == Put(r4, 3, 0, RMul(p[2][0], A))
                 r6 == Put(r5, 3, 1, RMul(p[2][1], B))
                 r7 == Put(r6, 3, 2, RNeg(One))
             IN  Put(r7, 3, 3, p[2][2])
        ELSE LET C == RInv(p[2][2])
                 r1 == Put(Identity, 0, 0, A)
                 r2 == Put(r1, 1, 1, B)
                 r3 == Put(r2, 2, 2, C)
                 r4 == Put(r3, 3, 3, One)
                 r5 == Put(r4, 3, 0, RMul(RNeg(p[3][0]), A))
                 r6 == Put(r5, 3, 1, RMul(RNeg(p[3][1]), B))
             IN  Put(r6, 3, 2, RMul(RNeg(p[3][2]), C))

\* inverseProjection(p)
inverseProjection(p) ==
    LET A == RInv(p[0][0])
        B == RInv(p[1][1])
    IN  IF RNe(p[2][3], Zero)
        THEN \* perspective projection
             LET C == RInv(p[3][2])
                 r1 == Put(Identity, 0, 0, A)
                 r2 == Put(r1, 1, 1, B)
                 r3 == Put(r2, 2, 2, Zero)
                 r4 == Put(r3, 2, 3, C)
                 r5 == Put(r4, 3, 0, RMul(p[2][0], A))
                 r6 == Put(r5, 3, 1, RMul(p[2][1], B))
                 r7 == Put(r6, 3, 2, RNeg(One))
             IN  Put(r7, 3, 3, RMul(p[2][2], C))
        ELSE \* orthographic projection
             LET C == RInv(p[2][2])
                 r1 == Put(Identity, 0, 0, A)
                 r2 == Put(r1, 1, 1, B)
                 r3 == Put(r2, 2, 2, C)
                 r4 == Put(r3, 3, 3, One)
                 r5 == Put(r4, 3, 0, RMul(RNeg(p[3][0]), A))
                 r6 == Put(r5, 3, 1, RMul(RNeg(p[3][1]), B))
             IN  Put(r6, 3, 2, RMul(RNeg(p[3][2]), C))

-----------------------------------------------------------------------------
(* Vectors and the matrix helpers of the math library the transform bridge *)
(* uses.                                                                    *)

Dot(u, v) == RAdd(RAdd(RMul(u[1], v[1]), RMul(u[2], v[2])), RMul(u[3], v[3]))

Cross(u, v) ==
    <<RSub(RMul(u[2], v[3]), RMul(u[3], v[2])),
      RSub(RMul(u[3], v[1]), RMul(u[1], v[3])),
      RSub(RMul(u[1], v[2]), RMul(u[2], v[1]))>>

VSub(u, v) == <<RSub(u[1], v[1]), RSub(u[2], v[2]), RSub(u[3], v[3])>>
VScale(u, k) == <<RMul(u[1], k), RMul(u[2], k), RMul(u[3], k)>>

ISqrt(n) == CHOOSE k \in 0..n : k * k = n

\* the square root of a rational whose numerator and denominator are squares
RSqrt(a) == IF IsFinite(a) THEN <<ISqrt(a[1]), ISqrt(a[2])>> ELSE a

RAbs(a) == <<Abs(a[1]), a[2]>>

\* normalize(v) is v * (1 / sqrt(dot(v, v)))
Normalize(v) == VScale(v, RInv(RSqrt(Dot(v, v))))

\* mat4::lookAt(eye, center, up)
lookAtMatrix(eye, center, up) ==
    LET z_axis == Normalize(VSub(center, eye))
        up0 == Normalize(up)
        norm_up == IF RGt(RAbs(Dot(z_axis, up0)), R(999, 1000))
                   THEN <<up0[3], up0[1], up0[2]>>
                   ELSE up0
        x_axis == Normalize(Cross(z_axis, norm_up))
        y_axis == Cross(x_axis, z_axis)
        cols == <<x_axis, y_axis, VScale(z_axis, RNeg(One)), eye>>
    IN  [c \in Idx |-> [r \in Idx |->
            IF r < 3 THEN cols[c + 1][r + 1]
            ELSE IF c = 3 THEN One ELSE Zero]]

\* the three indices other than i, in order
Others(i) ==
    CASE i = 0 -> <<1, 2, 3>>
      [] i = 1 -> <<0, 2, 3>>
      [] i = 2 -> <<0, 1, 3>>
      [] i = 3 -> <<0, 1, 2>>

\* the determinant of m without row i and column j
Minor(m, i, j) ==
    LET rs == Others(i)
        cs == Others(j)
        e(a, b) == m[cs[b]][rs[a]]
    IN  RAdd(RSub(RMul(e(1, 1), RSub(RMul(e(2, 2), e(3, 3)), RMul(e(2, 3), e(3, 2)))),
                  RMul(e(1, 2), RSub(RMul(e(2, 1), e(3, 3)), RMul(e(2, 3), e(3, 1))))),
             RMul(e(1, 3), RSub(RMul(e(2, 1), e(3, 2)), RMul(e(2, 2), e(3, 1)))))

Cofactor(m, i, j) ==
    IF (i + j) % 2 = 0 THEN Minor(m, i, j) ELSE RNeg(Minor(m, i, j))

Det(m) ==
    RAdd(RAdd(RMul(m[0][0], Cofactor(m, 0, 0)), RMul(m[1][0], Cofactor(m, 0, 1))),
         RAdd(RMul(m[2][0], Cofactor(m, 0, 2)), RMul(m[3][0], Cofactor(m, 0, 3))))

\* inverse(m): the adjugate over the determinant; a singular m divides by zero
inverse(m) ==
    LET AdjugateOverDet(v) ==
            LET d == Det(v)
            IN  [c \in Idx |-> [r \in Idx |-> RDiv(Cofactor(v, c, r), d)]]
    IN  Once(AdjugateOverDet, m)

-----------------------------------------------------------------------------
(* The transform bridge.  The transform system holds one world transform   *)
(* for the camera's entity (the entity has no parent).                      *)

\* FTransformManager::setTransform(instance, m): the transform it holds after
setTransform(m) == m

\* FTransformManager::getWorldTransformAccurate(instance)
getWorldTransformAccurate == tm

\* FCamera::setModelMatrix(modelMatrix): the transform written
setModelMatrix(modelMatrix) == setTransform(modelMatrix)

\* FCamera::lookAt(eye, center, up): the transform written
lookAt(eye, center, up) == setTransform(lookAtMatrix(eye, center, up))

\* a variant that returns a copy taken at construction
getModelMatrixCached == Identity

\* FCamera::getModelMatrix()
getModelMatrix == getWorldTransformAccurate

\* FCamera::getViewMatrix()
getViewMatrix == inverse(getModelMatrix)

\* FCamera::getPosition(): the translation of the model matrix
getPosition == <<getModelMatrix[3][0], getModelMatrix[3][1], getModelMatrix[3][2]>>

-----------------------------------------------------------------------------
(* The CameraInfo snapshot.                                                *)

\* Exposure::ev100(camera) is log2 of this value: (N^2 / t) * (100 / S)
ev100 ==
    RMul(RDiv(RMul(mAperture, mAperture), mShutterSpeed),
         RDiv(R(100, 1), mSensitivity))

\* a variant that takes the focus distance as it is for d
CameraInfoUnclampedFocus ==
    LET f == Float(getFocalLength)
    IN  [projection |-> MatF(getProjectionMatrix),
         cullingProjection |-> MatF(getCullingProjectionMatrix),
         model |-> MatF(getModelMatrix),
         view |-> MatF(getViewMatrix),
         zn |-> mNear,
         zf |-> mFar,
         ev100 |-> ev100,
         f |-> f,
         A |-> Float(RDiv(f, mAperture)),
         d |-> mFocusDistance]

\* CameraInfo::CameraInfo(FCamera const& camera)
CameraInfo ==
    LET f == Float(getFocalLength)
    IN  [projection |-> MatF(getProjectionMatrix),
         cullingProjection |-> MatF(getCullingProjectionMatrix),
         model |-> MatF(getModelMatrix),
         view |-> MatF(getViewMatrix),
         zn |-> mNear,
         zf |-> mFar,
         ev100 |-> ev100,
         f |-> f,
         A |-> Float(RDiv(f, mAperture)),
         d |-> RMax(mNear, mFocusDistance)]

\* CameraInfo::CameraInfo(FCamera const& camera, const mat4& worldOriginCamera)
CameraInfoWorldOrigin(worldOriginCamera) ==
    LET modelMatrix == MatMul(worldOriginCamera, getModelMatrix)
        f == Float(getFocalLength)
    IN  [projection |-> MatF(getProjectionMatrix),
         cullingProjection |-> MatF(getCullingProjectionMatrix),
         model |-> MatF(modelMatrix),
         view |-> MatF(inverse(modelMatrix)),
         zn |-> mNear,
         zf |-> mFar,
         ev100 |-> ev100,
         f |-> f,
         A |-> Float(RDiv(f, mAperture)),
         d |-> RMax(mNear, mFocusDistance),
         worldOffset |-> getPosition,
         worldOrigin |-> MatF(worldOriginCamera)]

-----------------------------------------------------------------------------
(* The camera's state after construction (details/Camera.h).               *)

None == "none"

InitCamera ==
    /\ mProjection = Identity
    /\ mProjectionForCulling = Identity
    /\ mNear = Zero
    /\ mFar = Zero
    /\ mScaling = <<One, One>>
    /\ mShiftCS = <<Zero, Zero>>
    /\ mAperture = R(16, 1)
    /\ mShutterSpeed = R(1, 125)
    /\ mSensitivity = R(100, 1)
    /\ mFocusDistance = Zero
    /\ tm = Identity
    /\ built = [by |-> None, args |-> <<>>]
    /\ op = [name |-> "FCamera", args |-> <<>>]
    /\ ret = None

-----------------------------------------------------------------------------
(* The operations.  Each takes the set its arguments are drawn from.       *)

\* the four projection fields become those of record s
StoreProjection(s) ==
    /\ mProjection' = s.mProjection
    /\ mProjectionForCulling' = s.mProjectionForCulling
    /\ mNear' = s.mNear
    /\ mFar' = s.mFar

\* the frustum setter, reached with arguments a
ReachFrustumSetter(a) ==
    /\ StoreProjection(setProjection(a[1], a[2], a[3], a[4], a[5], a[6], a[7]))
    /\ built' = [by |-> "setProjection", args |-> a]
    /\ ret' = None
    /\ UNCHANGED <<clipVars, expoVars, mFocusDistance, tm>>

\* camera.setProjection(projection, left, right, bottom, top, near, far)
SetProjection(inputs) ==
    \E a \in inputs :
        /\ ReachFrustumSetter(a)
        /\ op' = [name |-> "setProjection", args |-> a]

\* camera.setProjection(fovInDegrees, aspect, near, far, direction)
SetProjectionFov(inputs) ==
    \E a \in inputs :
        /\ ReachFrustumSetter(FovFrustum(a[1], a[2], a[3], a[4], a[5]))
        /\ op' = [name |-> "setProjectionFov", args |-> a]

\* camera.setLensProjection(focalLengthInMillimeters, aspect, near, far)
SetLensProjection(inputs) ==
    \E a \in inputs :
        /\ ReachFrustumSetter(LensFrustum(a[1], a[2], a[3], a[4]))
        /\ op' = [name |-> "setLensProjection", args |-> a]

\* camera.setCustomProjection(p, c, near, far)
SetCustomProjection(inputs) ==
    \E a \in inputs :
        /\ StoreProjection(setCustomProjection(a[1], a[2], a[3], a[4]))
        /\ built' = [by |-> "setCustomProjection", args |-> <<>>]
        /\ op' = [name |-> "setCustomProjection", args |-> a]
        /\ ret' = None
        /\ UNCHANGED <<clipVars, expoVars, mFocusDistance, tm>>

\* camera.setScaling(scaling)
SetScaling(inputs) ==
    \E a \in inputs :
        /\ mScaling' = a
        /\ op' = [name |-> "setScaling", args |-> a]
        /\ ret' = None
        /\ UNCHANGED <<projVars, mShiftCS, expoVars, mFocusDistance, tm, built>>

\* camera.setShift(shift); a is the clip-space shift it stores
SetShift(inputs) ==
    \E a \in inputs :
        /\ mShiftCS' = a
        /\ op' = [name |-> "setShift", args |-> a]
        /\ ret' = None
        /\ UNCHANGED <<projVars, mScaling, expoVars, mFocusDistance, tm, built>>

\* what a const method of the camera, or a static function, leaves alone
cameraVars ==
    <<projVars, clipVars, expoVars, mFocusDistance, tm, built>>

\* camera.getProjectionMatrix()
GetProjectionMatrix ==
    /\ op' = [name |-> "getProjectionMatrix", args |-> <<>>]
    /\ ret' = getProjectionMatrix
    /\ UNCHANGED cameraVars

\* camera.getCullingProjectionMatrix()
GetCullingProjectionMatrix ==
    /\ op' = [name |-> "getCullingProjectionMatrix", args |-> <<>>]
    /\ ret' = getCullingProjectionMatrix
    /\ UNCHANGED cameraVars

\* camera.setExposure(aperture, shutterSpeed, sensitivity)
SetExposure(inputs) ==
    \E a \in inputs :
        LET s == setExposure(a[1], a[2], a[3])
        IN  /\ mAperture' = s.mAperture
            /\ mShutterSpeed' = s.mShutterSpeed
            /\ mSensitivity' = s.mSensitivity
            /\ op' = [name |-> "setExposure", args |-> a]
            /\ ret' = None
            /\ UNCHANGED <<projVars, clipVars, mFocusDistance, tm, built>>

\* camera.setFocusDistance(distance)
SetFocusDistance(inputs) ==
    \E a \in inputs :
        /\ mFocusDistance' = a
        /\ op' = [name |-> "setFocusDistance", args |-> a]
        /\ ret' = None
        /\ UNCHANGED <<projVars, clipVars, expoVars, tm, built>>

\* Camera::computeEffectiveFocalLength(focalLength, focusDistance), a static
\* function; the divisor it used is returned with its value
ComputeEffectiveFocalLength(inputs) ==
    \E a \in inputs :
        /\ op' = [name |-> "computeEffectiveFocalLength", args |-> a]
        /\ ret' = [value |-> computeEffectiveFocalLength(a[1], a[2]),
                   divisor |-> EffectiveFocalDivisor(a[1], a[2])]
        /\ UNCHANGED cameraVars

\* camera.setModelMatrix(modelMatrix)
SetModelMatrix(inputs) ==
    \E a \in inputs :
        /\ tm' = setModelMatrix(a)
        /\ op' = [name |-> "setModelMatrix", args |-> a]
        /\ ret' = None
        /\ UNCHANGED <<projVars, clipVars, expoVars, mFocusDistance, built>>

\* camera.lookAt(eye, center, up)
LookAt(inputs) ==
    \E a \in inputs :
        /\ tm' = lookAt(a[1], a[2], a[3])
        /\ op' = [name |-> "lookAt", args |-> a]
        /\ ret' = None
        /\ UNCHANGED <<projVars, clipVars, expoVars, mFocusDistance, built>>

\* a write made directly to the transform system for the camera's entity
TransformManagerSetTransform(inputs) ==
    \E a \in inputs :
        /\ tm' = setTransform(a)
        /\ op' = [name |-> "TransformManager::setTransform", args |-> a]
        /\ ret' = None
        /\ UNCHANGED <<projVars, clipVars, expoVars, mFocusDistance, built>>

\* camera.getModelMatrix()
GetModelMatrix ==
    /\ op' = [name |-> "getModelMatrix", args |-> <<>>]
    /\ ret' = getModelMatrix
    /\ UNCHANGED cameraVars

\* camera.getViewMatrix()
GetViewMatrix ==
    /\ op' = [name |-> "getViewMatrix", args |-> <<>>]
    /\ ret' = getViewMatrix
    /\ UNCHANGED cameraVars

\* CameraInfo info(camera)
MakeCameraInfo ==
    /\ op' = [name |-> "CameraInfo", args |-> <<>>]
    /\ ret' = CameraInfo
    /\ UNCHANGED cameraVars

\* CameraInfo info(camera, worldOriginCamera)
MakeCameraInfoWorldOrigin(inputs) ==
    \E a \in inputs :
        /\ op' = [name |-> "CameraInfoWorldOrigin", args |-> a]
        /\ ret' = CameraInfoWorldOrigin(a)
        /\ UNCHANGED cameraVars

-----------------------------------------------------------------------------
(* The inputs the operations are called with.                              *)

DepthDen == 4 * FloatScale

Coords == {R(k, 1) : k \in -MaxCoord..MaxCoord}
Depths == {R(k, DepthDen) : k \in 0..MaxDepth}

\* <<near, far>>: near = 0 (refused for a perspective) and a plain pair
BaseDepths == {<<Zero, One>>, <<One, Two>>}

\* <<left, right, bottom, top>>: one of the two pairs is free, the other is -1, 1
PlaneArgs ==
    {<<l, r, RNeg(One), One>> : l \in Coords, r \in Coords}
    \cup {<<RNeg(One), One, b, t>> : b \in Coords, t \in Coords}

\* <<projection, left, right, bottom, top, near, far>>
FrustumArgs ==
    {<<p, q[1], q[2], q[3], q[4], d[1], d[2]>> :
        p \in Projections, q \in PlaneArgs, d \in BaseDepths}
    \cup {<<p, RNeg(One), One, RNeg(One), One, n, f>> :
        p \in Projections, n \in Depths, f \in Depths}

Aspects == {Zero, One, Two}

\* <<fovInDegrees, aspect, near, far, direction>>
FovArgs ==
    {<<v, a, d[1], d[2], dir>> :
        v \in {0, 90, -90}, a \in Aspects, d \in BaseDepths,
        dir \in {VERTICAL, HORIZONTAL}}

\* <<focalLengthInMillimeters, aspect, near, far>>
LensArgs ==
    {<<fl, a, d[1], d[2]>> :
        fl \in {Zero, R(12, 1), R(24, 1)}, a \in Aspects, d \in BaseDepths}

\* a matrix whose sixteen entries all differ
GenericEntry(c, r) == R(4 * c + r + 1, 1)
Generic == Mat(GenericEntry)

\* the inputs of the clip-space adapter's specification
ClipFrustumArgs ==
    {<<p, l, One, RNeg(One), One, d[1], d[2]>> :
        p \in Projections, l \in Coords, d \in BaseDepths}

CustomArgs ==
    {<<p, c, One, Two>> : p \in {Identity, Generic}, c \in {Identity, Generic}}

ScaleValues == {R(k, 2) : k \in 1..MaxScale}
Scalings == {<<x, y>> : x \in ScaleValues, y \in ScaleValues}

ShiftValues == {R(k, 2) : k \in -1..MaxShift}
Shifts == {<<x, y>> : x \in ShiftValues, y \in ShiftValues}

\* exposure inputs: below, at the ends of, inside and above each range
Spread(lo, hi) ==
    {RAdd(lo, RMul(RSub(hi, lo), R(k, MaxExposureSteps + 1))) :
        k \in 0..(MaxExposureSteps + 1)}

ApertureInputs == Spread(MIN_APERTURE, MAX_APERTURE) \cup {R(1, 10), R(100, 1)}
ShutterInputs ==
    Spread(MIN_SHUTTER_SPEED, MAX_SHUTTER_SPEED) \cup {R(1, 50000), R(1000, 1)}
SensitivityInputs ==
    Spread(MIN_SENSITIVITY, MAX_SENSITIVITY)
    \cup {R(1, 1), R(100, 1), R(409600, 1)}

ExposureArgs ==
    {<<a, t, i>> : a \in ApertureInputs, t \in ShutterInputs,
                   i \in SensitivityInputs}

\* <<focalLength, focusDistance>>
FocalArgs ==
    {<<R(f, 1), R(d, 1)>> : f \in 1..MaxFocal, d \in 0..(MaxFocal + 2)}

\* model matrices: a translation, a rotation about z and a uniform scale s;
\* s = 0 is a singular matrix
ModelMatrix(x, y, quarterTurn, s) ==
    LET k == R(s, 1)
        cols == IF quarterTurn
                THEN << <<Zero, k, Zero>>, <<RNeg(k), Zero, Zero>>,
                        <<Zero, Zero, k>>, <<R(x, 1), R(y, 1), R(5, 1)>> >>
                ELSE << <<k, Zero, Zero>>, <<Zero, k, Zero>>,
                        <<Zero, Zero, k>>, <<R(x, 1), R(y, 1), R(5, 1)>> >>
    IN  [c \in Idx |-> [r \in Idx |->
            IF r < 3 THEN cols[c + 1][r + 1]
            ELSE IF c = 3 THEN One ELSE Zero]]

ModelMatrices ==
    {ModelMatrix(x, y, q, s) :
        x \in 0..MaxTranslate, y \in 0..MaxTranslate, q \in BOOLEAN, s \in 0..2}

V3(x, y, z) == <<R(x, 1), R(y, 1), R(z, 1)>>

\* <<eye, center, up>>; the second looks from the centre itself, the fourth
\* straight down
LookAtArgs ==
    {<<e, V3(0, 0, 0), u>> :
        e \in {V3(0, 0, 5), V3(0, 0, 0), V3(3, 0, 4), V3(0, 5, 0), V3(1, 0, 0)},
        u \in {V3(0, 1, 0), V3(0, 2, 0), V3(0, 0, 1)}}

-----------------------------------------------------------------------------
(* The projection builder: any sequence of the validated setters.          *)

InitProj == InitCamera

NextProj ==
    \/ SetProjection(FrustumArgs)
    \/ SetProjectionFov(FovArgs)
    \/ SetLensProjection(LensArgs)

SpecProj == InitProj /\ [][NextProj]_vars

-----------------------------------------------------------------------------
(* The clip-space adapter: projections, scalings, shifts and the two reads. *)

NextClip ==
    \/ SetProjection(ClipFrustumArgs)
    \/ SetCustomProjection(CustomArgs)
    \/ SetScaling(Scalings)
    \/ SetShift(Shifts)
    \/ GetProjectionMatrix
    \/ GetCullingProjectionMatrix

SpecClip == InitCamera /\ [][NextClip]_vars

-----------------------------------------------------------------------------
(* The exposure state.                                                     *)

NextExposure == SetExposure(ExposureArgs)

SpecExposure == InitCamera /\ [][NextExposure]_vars

NextFocal == ComputeEffectiveFocalLength(FocalArgs)

SpecFocal == InitCamera /\ [][NextFocal]_vars

-----------------------------------------------------------------------------
(* The transform bridge.                                                   *)

NextTransform ==
    \/ SetModelMatrix(ModelMatrices)
    \/ LookAt(LookAtArgs)
    \/ TransformManagerSetTransform(ModelMatrices)
    \/ GetModelMatrix
    \/ GetViewMatrix

SpecTransform == InitCamera /\ [][NextTransform]_vars

-----------------------------------------------------------------------------
(* The analytic inverse, a pure function: the initial states draw the      *)
(* projection to invert, the one action inverts it.                        *)

\* <<form, projection, left, right, bottom, top, near, far>>: the stored
\* matrix of setProjection(projection, ...) to invert, "rendering" or "culling"
InverseArgs ==
    {<<form, p, l, One, b, One, n, f>> :
        form \in {"rendering", "culling"}, p \in Projections,
        l \in Coords, b \in Coords, n \in Depths, f \in Depths}

\* the matrix the builder stores for a
BuiltMatrix(a) ==
    LET s == setProjection(a[2], a[3], a[4], a[5], a[6], a[7], a[8])
    IN  IF a[1] = "rendering" THEN s.mProjection ELSE s.mProjectionForCulling

InitInverse ==
    /\ mProjection = Identity
    /\ mProjectionForCulling = Identity
    /\ mNear = Zero
    /\ mFar = Zero
    /\ mScaling = <<One, One>>
    /\ mShiftCS = <<Zero, Zero>>
    /\ mAperture = R(16, 1)
    /\ mShutterSpeed = R(1, 125)
    /\ mSensitivity = R(100, 1)
    /\ mFocusDistance = Zero
    /\ tm = Identity
    /\ built = [by |-> None, args |-> <<>>]
    /\ \E a \in InverseArgs : op = [name |-> "input", args |-> a]
    /\ ret = None

\* Camera::inverseProjection(p), a static function
InverseProjection ==
    /\ op.name = "input"
    /\ op' = [name |-> "inverseProjection", args |-> op.args]
    /\ ret' = [p |-> BuiltMatrix(op.args),
               r |-> inverseProjection(BuiltMatrix(op.args))]
    /\ UNCHANGED cameraVars

NextInverse == InverseProjection

SpecInverse == InitInverse /\ [][NextInverse]_vars

-----------------------------------------------------------------------------
(* The whole camera: every operation, on a few inputs each.                *)

UnitFrustum == <<PERSPECTIVE, RNeg(One), One, RNeg(One), One, One, Two>>

Init == InitCamera

Next ==
    \/ SetProjection({UnitFrustum})
    \/ SetProjectionFov({<<90, One, One, Two, VERTICAL>>})
    \/ SetLensProjection({<<R(12, 1), One, One, Two>>})
    \/ SetCustomProjection({<<Generic, Identity, One, Two>>})
    \/ SetScaling({<<Half, One>>})
    \/ SetShift({<<Half, RNeg(Half)>>})
    \/ GetProjectionMatrix
    \/ GetCullingProjectionMatrix
    \/ SetExposure({<<R(1, 10), R(1000, 1), R(100, 1)>>})
    \/ SetFocusDistance({Two})
    \/ SetModelMatrix({ModelMatrix(1, 0, TRUE, 2)})
    \/ LookAt({<<V3(0, 0, 5), V3(0, 0, 0), V3(0, 1, 0)>>})
    \/ TransformManagerSetTransform({ModelMatrix(1, 0, TRUE, 2)})
    \/ GetModelMatrix
    \/ GetViewMatrix
    \/ MakeCameraInfo
    \/ MakeCameraInfoWorldOrigin({ModelMatrix(1, 1, FALSE, 1)})

Spec == Init /\ [][Next]_vars

-----------------------------------------------------------------------------
(* The claims.                                                             *)

ValidatedSetters == {"setProjection", "setProjectionFov", "setLensProjection"}

\* the conditions under which the frustum setter falls back, on its
\* arguments a = <<projection, left, right, bottom, top, near, far>>
Degenerate(a) ==
    \/ REq(a[2], a[3])
    \/ REq(a[4], a[5])
    \/ (a[1] = PERSPECTIVE /\ (RLe(a[6], Zero) \/ RLe(a[7], a[6])))
    \/ (a[1] = ORTHO /\ REq(a[6], a[7]))

\* the near and far values the frustum setter uses for arguments a
NearUsed(a) == IF Degenerate(a) THEN R(1, 10) ELSE a[6]
FarUsed(a) == IF Degenerate(a) THEN R(100, 1) ELSE a[7]

StoredProjection ==
    [mProjection |-> mProjection, mProjectionForCulling |-> mProjectionForCulling,
     mNear |-> mNear, mFar |-> mFar]

\* C1: after a validated projection setter whose frustum arguments are
\* degenerate, the four stored fields are those setProjection(type, -0.1, 0.1,
\* -0.1, 0.1, 0.1, 100.0) stores, near and far are the narrowed 0.1 and 100,
\* and no matrix entry is infinite or NaN; otherwise the culling matrix,
\* near and far are built from the caller's six values unchanged.
FallbackToDefaultFrustum ==
    op.name \in ValidatedSetters =>
        LET a == built.args
        IN  IF Degenerate(a)
            THEN /\ StoredProjection =
                        setProjection(a[1], R(-1, 10), R(1, 10), R(-1, 10),
                                      R(1, 10), R(1, 10), R(100, 1))
                 /\ mNear = Float(R(1, 10))
                 /\ mFar = Float(R(100, 1))
                 /\ MatFinite(mProjection)
                 /\ MatFinite(mProjectionForCulling)
            ELSE /\ mProjectionForCulling =
                        IF a[1] = PERSPECTIVE
                        THEN frustum(a[2], a[3], a[4], a[5], a[6], a[7])
                        ELSE ortho(a[2], a[3], a[4], a[5], a[6], a[7])
                 /\ mNear = Float(a[6])
                 /\ mFar = Float(a[7])

\* a fallback reached through the field-of-view setter (aspect 0 gives a
\* frustum of zero width) has acted
FallbackThroughFov ==
    /\ op.name = "setProjectionFov"
    /\ op.args[2] = Zero
    /\ RGt(op.args[3], Zero)
    /\ Degenerate(built.args)
    /\ mFar = R(100, 1)

\* C2: after a PERSPECTIVE build the culling matrix is the finite-far frustum
\* matrix, with z-row coefficients (f+n)/(n-f) and 2fn/(n-f), and the
\* rendering matrix equals it but for [2][2] = -1 and [3][2] = -2n, n the near
\* value used; after an ORTHO build the two matrices are identical.
InfiniteFarOnlyInRenderingProjection ==
    op.name \in ValidatedSetters =>
        LET a == built.args
            n == NearUsed(a)
            f == FarUsed(a)
        IN  IF a[1] = PERSPECTIVE
            THEN /\ mProjectionForCulling[2][2] = RDiv(RAdd(f, n), RSub(n, f))
                 /\ mProjectionForCulling[3][2] =
                        RDiv(RMul(RMul(Two, f), n), RSub(n, f))
                 /\ mProjectionForCulling[2][3] = RNeg(One)
                 /\ \A c \in Idx : \A r \in Idx :
                        <<c, r>> \notin {<<2, 2>>, <<3, 2>>} =>
                            mProjection[c][r] = mProjectionForCulling[c][r]
                 /\ mProjection[2][2] = RNeg(One)
                 /\ mProjection[3][2] = RMul(RNeg(Two), n)
            ELSE mProjection = mProjectionForCulling

\* a valid asymmetric perspective frustum has been built
AsymmetricPerspectiveBuilt ==
    /\ op.name = "setProjection"
    /\ built.args[1] = PERSPECTIVE
    /\ ~Degenerate(built.args)
    /\ built.args[2] = Zero
    /\ mProjection[2][0] # Zero
    /\ mProjection[3][2] # mProjectionForCulling[3][2]

\* C3: after any validated projection setter the stored near and far differ,
\* and after a PERSPECTIVE build stored near > 0 and stored far > stored near.
StoredNearFarInvariant ==
    op.name \in ValidatedSetters =>
        /\ RNe(mNear, mFar)
        /\ built.args[1] = PERSPECTIVE => (RGt(mNear, Zero) /\ RGt(mFar, mNear))

RowScale(v, k) == <<RMul(v[1], k), RMul(v[2], k), RMul(v[3], k), RMul(v[4], k)>>
RowAdd(u, v) ==
    <<RAdd(u[1], v[1]), RAdd(u[2], v[2]), RAdd(u[3], v[3]), RAdd(u[4], v[4])>>

\* the x row and the y row of r are those of p, scaled and shifted
ScaledAndShifted(r, p) ==
    /\ Row(r, 0) = RowAdd(RowScale(Row(p, 0), mScaling[1]),
                          RowScale(Row(p, 3), mShiftCS[1]))
    /\ Row(r, 1) = RowAdd(RowScale(Row(p, 1), mScaling[2]),
                          RowScale(Row(p, 3), mShiftCS[2]))

CullingReadRows ==
    /\ op.name = "getCullingProjectionMatrix" =>
            /\ Row(ret, 2) = Row(mProjectionForCulling, 2)
            /\ Row(ret, 3) = Row(mProjectionForCulling, 3)
            /\ ScaledAndShifted(ret, mProjectionForCulling)
            /\ (mScaling = <<One, One>> /\ mShiftCS = <<Zero, Zero>>) =>
                    ret = mProjectionForCulling
    /\ op.name = "getProjectionMatrix" => ScaledAndShifted(ret, mProjection)

\* C7: getCullingProjectionMatrix() leaves the z and w rows of the culling
\* projection as they are, scales and shifts its x and y rows (the identity
\* for scaling (1,1) and shift (0,0)) as getProjectionMatrix() does for the
\* rendering projection, and changes no field of the camera.
CullingReadAppliesOnlyXY ==
    /\ []CullingReadRows
    /\ [][op'.name = "getCullingProjectionMatrix" => UNCHANGED cameraVars]_vars

\* the culling read has returned a scaled and shifted generic matrix
CullingReadOfScaledGeneric ==
    /\ op.name = "getCullingProjectionMatrix"
    /\ mProjectionForCulling = Generic
    /\ mScaling = <<Half, One>>
    /\ mShiftCS = <<RNeg(Half), Zero>>
    /\ ret # mProjectionForCulling

RenderingReadRows ==
    op.name = "getProjectionMatrix" =>
        /\ Row(ret, 3) = Row(mProjection, 3)
        /\ Row(ret, 2) = RowAdd(RowScale(Row(mProjection, 2), RNeg(Half)),
                                RowScale(Row(mProjection, 3), Half))
        /\ (built.by = "setProjection" /\ built.args[1] = PERSPECTIVE) =>
                /\ Row(ret, 2) = <<Zero, Zero, Zero, NearUsed(built.args)>>
                /\ ret[2][2] = Zero
                /\ ret[3][2] = NearUsed(built.args)

\* C10: getProjectionMatrix() keeps the w row of the stored projection and
\* returns -0.5 * (z row) + 0.5 * (w row) as the z row, which for a
\* PERSPECTIVE projection built by setProjection is (0, 0, 0, near used),
\* whatever the scaling and shift; the read leaves the stored projection alone.
RenderingReadZeroesDepthCoefficient ==
    /\ []RenderingReadRows
    /\ [][op'.name = "getProjectionMatrix" => mProjection' = mProjection]_vars

\* the rendering read of a perspective projection, scaled and shifted
RenderingReadOfScaledPerspective ==
    /\ op.name = "getProjectionMatrix"
    /\ built.by = "setProjection"
    /\ built.args[1] = PERSPECTIVE
    /\ ~Degenerate(built.args)
    /\ mScaling = <<Half, One>>
    /\ mShiftCS = <<RNeg(Half), Zero>>
    /\ ret[3][2] = One

\* v held inside [lo, hi]
Clamped(v, lo, hi) == IF RLt(v, lo) THEN lo ELSE IF RLt(hi, v) THEN hi ELSE v

InRange(v, lo, hi) == RLe(lo, v) /\ RLe(v, hi)

\* C4: setExposure stores min(max(aperture, 0.5), 64), min(max(shutterSpeed,
\* 1/25000), 60) and min(max(sensitivity, 10), 204800): the stored values lie
\* in their ranges, in-range inputs are stored unchanged, and
\* setExposure(0.1, 1000, 100) stores 0.5, 60 and 100.
ExposureStoredClamped ==
    op.name = "setExposure" =>
        LET a == op.args
        IN  /\ mAperture = Clamped(a[1], R(1, 2), R(64, 1))
            /\ mShutterSpeed = Clamped(a[2], R(1, 25000), R(60, 1))
            /\ mSensitivity = Clamped(a[3], R(10, 1), R(204800, 1))
            /\ InRange(mAperture, R(1, 2), R(64, 1))
            /\ InRange(mShutterSpeed, R(1, 25000), R(60, 1))
            /\ InRange(mSensitivity, R(10, 1), R(204800, 1))
            /\ InRange(a[1], R(1, 2), R(64, 1)) => mAperture = a[1]
            /\ InRange(a[2], R(1, 25000), R(60, 1)) => mShutterSpeed = a[2]
            /\ InRange(a[3], R(10, 1), R(204800, 1)) => mSensitivity = a[3]
            /\ a = <<R(1, 10), R(1000, 1), R(100, 1)>> =>
                    <<mAperture, mShutterSpeed, mSensitivity>>
                        = <<R(1, 2), R(60, 1), R(100, 1)>>

\* setExposure(0.1, 1000, 100) has been called
ExposureOutOfRangeStored ==
    /\ op.name = "setExposure"
    /\ op.args = <<R(1, 10), R(1000, 1), R(100, 1)>>
    /\ mAperture = R(1, 2)
    /\ mShutterSpeed = R(60, 1)

\* C5, as claimed: the divisor (d - f) used by computeEffectiveFocalLength is
\* strictly positive for every focal length f > 0 and every focus distance.
EffectiveFocalDivisorPositive ==
    op.name = "computeEffectiveFocalLength" => RGt(ret.divisor, Zero)

\* C5, amended: the divisor used is never negative; it is d - f > 0 and the
\* result is (d*f)/(d-f) when the focus distance d exceeds f, and it is zero,
\* the division yielding +infinity, when the focus distance is f or less.
EffectiveFocalDivisorNonNegative ==
    op.name = "computeEffectiveFocalLength" =>
        LET f == op.args[1]
            d == op.args[2]
        IN  /\ RLe(Zero, ret.divisor)
            /\ RLt(f, d) =>
                    /\ ret.divisor = RSub(d, f)
                    /\ RGt(ret.divisor, Zero)
                    /\ ret.value = RDiv(RMul(d, f), RSub(d, f))
            /\ RLe(d, f) =>
                    /\ ret.divisor = Zero
                    /\ ret.value = PosInf

\* the function has been called with a focus distance inside the focal length
FocusInsideFocalLength ==
    /\ op.name = "computeEffectiveFocalLength"
    /\ RLt(op.args[2], op.args[1])
    /\ ret.divisor = Zero

\* C6: inverseProjection(P) * P is the identity for the culling perspective
\* matrix, the rendering perspective matrix and the orthographic matrix the
\* builder stores; P[2][3] is -1 for both perspective forms, which take the
\* perspective branch, and 0 for the orthographic one, which takes the other.
InverseProjectionIsExact ==
    op.name = "inverseProjection" =>
        /\ MatMul(ret.r, ret.p) = Identity
        /\ IF op.args[2] = PERSPECTIVE
           THEN /\ ret.p[2][3] = RNeg(One)
                /\ ret.r[3][2] = RNeg(One)
                /\ ret.r[2][2] = Zero
           ELSE /\ ret.p[2][3] = Zero
                /\ ret.r[2][3] = Zero
                /\ ret.r[3][3] = One

\* the rendering matrix of a valid asymmetric perspective frustum was inverted
AsymmetricRenderingInverted ==
    /\ op.name = "inverseProjection"
    /\ op.args[1] = "rendering"
    /\ op.args[2] = PERSPECTIVE
    /\ ~Degenerate(<<op.args[2], op.args[3], op.args[4], op.args[5],
                     op.args[6], op.args[7], op.args[8]>>)
    /\ ret.p[2][0] # Zero
    /\ ret.p[2][1] # Zero
    /\ ret.r[3][3] # Zero

\* m has an inverse: its entries are finite and its determinant is not 0
Invertible(m) == MatFinite(m) /\ Det(m) # Zero

\* C8, as claimed: getViewMatrix() * getModelMatrix() is the identity at
\* every point of every sequence of writes.
ViewTimesModelIsIdentity ==
    op.name = "getViewMatrix" => MatMul(ret, getModelMatrix) = Identity

\* C8, amended: getModelMatrix() returns the transform the transform system
\* holds now, which is the last matrix written through the camera or directly
\* (the look-at matrix after lookAt), and getViewMatrix() * getModelMatrix()
\* is the identity whenever that matrix is invertible.
TransformNeverCached ==
    /\ op.name = "getModelMatrix" => ret = tm
    /\ op.name = "lookAt" =>
            getModelMatrix = lookAtMatrix(op.args[1], op.args[2], op.args[3])
    /\ op.name \in {"setModelMatrix", "TransformManager::setTransform"} =>
            getModelMatrix = op.args
    /\ (op.name = "getViewMatrix" /\ Invertible(tm)) =>
            MatMul(ret, getModelMatrix) = Identity
    /\ Invertible(getModelMatrix) =>
            MatMul(getViewMatrix, getModelMatrix) = Identity

\* the view matrix was read after lookAt(eye = (0,0,5), center = 0, up = y)
ViewReadAfterLookAt ==
    /\ op.name = "getViewMatrix"
    /\ tm = lookAtMatrix(V3(0, 0, 5), V3(0, 0, 0), V3(0, 1, 0))
    /\ tm # Identity
    /\ MatMul(ret, tm) = Identity

Snapshots == {"CameraInfo", "CameraInfoWorldOrigin"}

SnapshotFields ==
    op.name \in Snapshots =>
        /\ ret.zn = mNear
        /\ ret.zf = mFar
        /\ ret.A = Float(RDiv(ret.f, mAperture))
        /\ ret.d = (IF RLt(mNear, mFocusDistance) THEN mFocusDistance ELSE mNear)

\* C9: constructing a CameraInfo leaves every field of the camera and the
\* entity's transform unchanged; two snapshots taken one after the other (with
\* the same world origin) are equal; zf is the stored far, A is f / aperture
\* and d is max(near, focusDistance).
SnapshotIsPureRead ==
    /\ []SnapshotFields
    /\ [][op'.name \in Snapshots => UNCHANGED cameraVars]_vars
    /\ [][(op.name \in Snapshots /\ op'.name = op.name /\ op'.args = op.args)
            => ret' = ret]_vars

\* a snapshot with a world origin was taken of a configured camera
SnapshotOfConfiguredCamera ==
    /\ op.name = "CameraInfoWorldOrigin"
    /\ built.by = "setProjection"
    /\ mFocusDistance = Two
    /\ mAperture = R(1, 2)
    /\ tm # Identity
    /\ ret.d = Two
    /\ ret.zf = Two

=============================================================================
